---- MODULE Spec2Model ----
(***************************************************************************)
(* Model of src/services/analysisService.ts: analyzeAudioSignal, the DSP  *)
(* pipeline that classifies a recording as "Human Voice" or               *)
(* "AI-Generated Voice", and of src/App.tsx: the component that holds the  *)
(* selected file and runs the analysis on it.                              *)
(*                                                                         *)
(* Number representation.  A Float32Array is kept run-length encoded: a    *)
(* sequence of runs [v |-> sample value, n |-> number of consecutive       *)
(* samples holding it].  A sample value is an integer number of quanta of  *)
(* 0.0001, the grid that stands for the float32 format: a store into a     *)
(* Float32Array rounds to the nearest grid point, ties to even, so a       *)
(* product below half a quantum underflows to 0 as a float32 product       *)
(* below half the smallest denormal does.  A loop over the samples acts    *)
(* on a run of n equal samples as n iterations of its body.  Doubles are   *)
(* fixed-point integers: frame RMS in millionths, frequencies in Hz,       *)
(* the coefficient of variation in thousandths, decibels in whole dB       *)
(* rounded down; NaN is a value that no quantity takes.                    *)
(***************************************************************************)
EXTENDS Integers, Sequences, FiniteSets, TLC

\* ---------------------------------------------------------------- bounds
\* Largest number of runs of a decoded recording.
MaxRuns == 2

\* ------------------------------------------------------ program constants
FFT_SIZE == 2048
HOP_SIZE == 1024
SAMPLE_RATE == 44100
\* 0.95, the normalisation target, in quanta of 0.0001.
PEAK == 9500
\* rms > 0.00001, in millionths.
RMS_FLOOR == 10
\* rms > 0.01, in millionths.
RMS_GATE == 10000
\* let minGlobalRMS = 1.0, in millionths.
RMS_INIT == 1000000
\* maxZeroRun > 1000
SILENCE_RUN == 1000
ROLLOFF_LIMIT == 17000
RIGID_LIMIT == 200
\* rmsCV < 0.4, in thousandths.
CV_LIMIT == 400
AI_THRESHOLD == 35
CONF_BASE == 60
CONF_SPAN == 39

\* ------------------------------------------------------------- arithmetic
Abs(x) == IF x < 0 THEN -x ELSE x

Min(a, b) == IF a < b THEN a ELSE b

Max(a, b) == IF a > b THEN a ELSE b

RECURSIVE SqrtSearch(_, _, _)
\* Largest r in lo..hi with r * r <= x, by bisection (hi * hi fits 32 bits).
SqrtSearch(x, lo, hi) ==
    IF lo >= hi THEN lo
    ELSE LET mid == (lo + hi + 1) \div 2
         IN IF mid * mid <= x THEN SqrtSearch(x, mid, hi)
            ELSE SqrtSearch(x, lo, mid - 1)

\* Math.sqrt on a non-negative fixed-point number, rounded down.
ISqrt(x) == SqrtSearch(x, 0, 46340)

RECURSIVE SumSeq(_)
\* Array.prototype.reduce((a,b)=>a+b, 0)
SumSeq(s) == IF s = << >> THEN 0 ELSE Head(s) + SumSeq(Tail(s))

RECURSIVE SumSqDev(_, _)
\* Array.prototype.reduce((a,b)=>a+Math.pow(b-m,2), 0)
SumSqDev(s, m) ==
    IF s = << >> THEN 0
    ELSE (Head(s) - m) * (Head(s) - m) + SumSqDev(Tail(s), m)

RECURSIVE MaxSeq(_)
MaxSeq(s) == IF s = << >> THEN 0 ELSE Max(Head(s), MaxSeq(Tail(s)))

\* ------------------------------------------------------------ the signal
\* Sample values a decoder can deliver, in quanta: silence, one quantum,
\* 0.01, a negative sample of 0.95, and a sample of 2.0 (above full scale).
RawLevels == {0, 1, 100, -9500, 20000}

\* Run lengths: around the silence threshold (1000), the hop, the frame, and
\* a run of several frames.
RunLens == {1, 999, 1000, 1001, 1024, 1500, 2048, 8192}

Run == [v : RawLevels, n : RunLens]

\* Decoded first channels: at most MaxRuns runs, adjacent runs differing.
Signals ==
    {s \in UNION {[1..k -> Run] : k \in 0..MaxRuns} :
        \A j \in 1..(Len(s) - 1) : s[j].v # s[j + 1].v}

RECURSIVE Length(_)
\* Float32Array.length
Length(a) == IF a = << >> THEN 0 ELSE Head(a).n + Length(Tail(a))

RECURSIVE StartOf(_, _)
\* Index of the first sample of run j (0-based).
StartOf(a, j) == IF j <= 1 THEN 0 ELSE a[j - 1].n + StartOf(a, j - 1)

\* Number of samples of run j that lie in [from, to).
Overlap(a, j, from, to) ==
    Max(0, Min(to, StartOf(a, j) + a[j].n) - Max(from, StartOf(a, j)))

\* Rounding of num / den (den > 0, num >= 0) to the nearest integer, ties to
\* even: the rounding of a store into a Float32Array.
RoundHalfEven(num, den) ==
    LET q == num \div den
        r == num % den
    IN IF 2 * r > den \/ (2 * r = den /\ q % 2 = 1) THEN q + 1 ELSE q

\* ------------------------------------------------------- normalizeBuffer
RECURSIVE PeakOfSigned(_, _)
\* The peak scan without Math.abs.
PeakOfSigned(input, maxPeak) ==
    IF input = << >> THEN maxPeak
    ELSE PeakOfSigned(Tail(input),
                      IF Head(input).v > maxPeak THEN Head(input).v ELSE maxPeak)

RECURSIVE PeakOf(_, _)
\* for (i...) if (Math.abs(input[i]) > maxPeak) maxPeak = Math.abs(input[i]);
PeakOf(input, maxPeak) ==
    IF input = << >> THEN maxPeak
    ELSE PeakOf(Tail(input),
                IF Abs(Head(input).v) > maxPeak THEN Abs(Head(input).v) ELSE maxPeak)

\* const scalar = maxPeak > 0 ? 0.95 / maxPeak : 1;  as a fraction <<num, den>>.
ScalarOf(maxPeak) == IF maxPeak > 0 THEN <<PEAK, maxPeak>> ELSE <<1, 1>>

\* output[i] = input[i] * scalar, stored as a float32.
Scale(v, scalar) ==
    LET m == RoundHalfEven(Abs(v) * scalar[1], scalar[2])
    IN IF v < 0 THEN -m ELSE m

normalizeBuffer(input) ==
    LET scalar == ScalarOf(PeakOf(input, 0))
    IN [j \in 1..Len(input) |-> [v |-> Scale(input[j].v, scalar), n |-> input[j].n]]

\* ------------------------------------------------------------ frame loop
\* let sumSq = 0; for (let s of chunk) sumSq += s*s;  then sumSq / FFT_SIZE,
\* for chunk = data.slice(i, i + FFT_SIZE).  The quotient is returned whole
\* part first, remainder (in FFT_SIZE-ths) second, in squared quanta; each
\* run's v*v is split by FFT_SIZE so that no product leaves 32 bits.
MeanSquare(a, i) ==
    LET whole[j \in 0..Len(a)] ==
            IF j = 0 THEN 0
            ELSE whole[j - 1]
                 + ((a[j].v * a[j].v) \div FFT_SIZE) * Overlap(a, j, i, i + FFT_SIZE)
        part[j \in 0..Len(a)] ==
            IF j = 0 THEN 0
            ELSE part[j - 1]
                 + ((a[j].v * a[j].v) % FFT_SIZE) * Overlap(a, j, i, i + FFT_SIZE)
    IN <<whole[Len(a)] + part[Len(a)] \div FFT_SIZE, part[Len(a)] % FFT_SIZE>>

\* const rms = Math.sqrt(sumSq / FFT_SIZE), in millionths, rounded down; the
\* radicand is scaled as far as 32 bits allow, as a double keeps its
\* leading digits.
RmsOf(ms) ==
    IF ms[1] < 200000
    THEN ISqrt(ms[1] * 10000 + (ms[2] * 10000) \div FFT_SIZE)
    ELSE IF ms[1] < 20000000 THEN 10 * ISqrt(ms[1] * 100)
    ELSE 100 * ISqrt(ms[1])

\* const BIN_WIDTH = sampleRate / FFT_SIZE; rolloffBin * BIN_WIDTH, in Hz.
RolloffHz(rolloffBin) == (rolloffBin * SAMPLE_RATE) \div FFT_SIZE

\* What getMagnitudeSpectrum and the three spectral loops yield for a gated
\* frame: the bin at which 85% of the energy is reached, the centroid (Hz)
\* and the flatness (thousandths).  The wave form inside a run is not part
\* of the signal model, so the spectral content of a recording is an input
\* of its own: a narrow-band shape and two full-band shapes.
NarrowBand == [rolloffBin |-> 372, centroid |-> 3100, flatness |-> 40]

FullBand == [rolloffBin |-> 836, centroid |-> 9000, flatness |-> 500]

BrightBand == [rolloffBin |-> 900, centroid |-> 10400, flatness |-> 700]

\* Spectral content of a recording: the shapes its successive frames cycle
\* through (steady, or alternating between two shapes).
Profiles ==
    { <<NarrowBand>>, <<FullBand>>, <<NarrowBand, BrightBand>>, <<FullBand, BrightBand>> }

\* The spectrum of frame number k (from 0) of a recording with profile p.
SpectrumOf(p, k) == p[(k % Len(p)) + 1]

\* A File, by what its bytes decode to: the first channel and the spectral
\* content of the recording.
Files == [signal : Signals, profile : Profiles]

\* audioState.file === null
NoFile == [signal |-> << >>, profile |-> << >>]

\* ------------------------------------------------------------ aggregation
\* 10^(d/20) for d = -100..0, in millionths less the 1e-9 that the code
\* adds, rounded up: DbTable[d + 101] <= x  iff  20*log10(x + 1e-9) >= d.
DbTable ==
    << 10, 12, 13, 15, 16, 18, 20, 23, 26, 29,
       32, 36, 40, 45, 51, 57, 64, 71, 80, 90,
       100, 113, 126, 142, 159, 178, 200, 224, 252, 282,
       317, 355, 399, 447, 502, 563, 631, 708, 795, 892,
       1000, 1123, 1259, 1413, 1585, 1779, 1996, 2239, 2512, 2819,
       3163, 3549, 3982, 4467, 5012, 5624, 6310, 7080, 7944, 8913,
       10000, 11221, 12590, 14126, 15849, 17783, 19953, 22388, 25119, 28184,
       31623, 35482, 39811, 44669, 50119, 56235, 63096, 70795, 79433, 89126,
       100000, 112202, 125893, 141254, 158490, 177828, 199527, 223873, 251189, 281839,
       316228, 354814, 398108, 446684, 501188, 562342, 630958, 707946, 794329, 891251,
       1000000 >>

\* 20 * Math.log10(x + 1e-9) for x in millionths, in whole dB rounded down.
NoiseFloorOf(x) ==
    LET k == CHOOSE k \in 1..Len(DbTable) :
                 /\ DbTable[k] <= x
                 /\ \A m \in (k + 1)..Len(DbTable) : DbTable[m] > x
    IN k - Len(DbTable)

\* xs.reduce((a,b)=>a+b,0) / (xs.length||1)
MeanOf(xs) == SumSeq(xs) \div (IF Len(xs) = 0 THEN 1 ELSE Len(xs))

\* Math.sqrt(xs.reduce((a,b)=>a + Math.pow(b-mean,2), 0) / (xs.length||1))
StdOf(xs) == ISqrt(SumSqDev(xs, MeanOf(xs)) \div (IF Len(xs) = 0 THEN 1 ELSE Len(xs)))

\* The double NaN.
NaN == -1

\* Math.sqrt(rmsVar)/rmsMean in thousandths; 0/0 is NaN.  The ratio does not
\* depend on the unit, so the values are first brought below 10^4 by a
\* common divisor, which keeps the squares within 32 bits.
RmsCVOf(xs) ==
    LET unit == MaxSeq(xs) \div 10000 + 1
        ys == [j \in 1..Len(xs) |-> xs[j] \div unit]
        rmsMean == MeanOf(ys)
    IN IF rmsMean = 0 THEN NaN ELSE (1000 * StdOf(ys)) \div rmsMean

\* x < y on doubles: false when x is NaN.
Less(x, y) == x # NaN /\ x < y

RECURSIVE ZeroRunScan(_, _, _)
\* for (i...) { if (data[i] === 0) zeroRunCount++;
\*              else { if (zeroRunCount > maxZeroRun) maxZeroRun = zeroRunCount;
\*                     zeroRunCount = 0; } }
\* taken one run at a time; yields maxZeroRun when the loop ends.
ZeroRunScan(a, zeroRunCount, maxZeroRun) ==
    IF a = << >> THEN maxZeroRun
    ELSE IF Head(a).v = 0
         THEN ZeroRunScan(Tail(a), zeroRunCount + Head(a).n, maxZeroRun)
         ELSE ZeroRunScan(Tail(a), 0,
                          IF zeroRunCount > maxZeroRun THEN zeroRunCount ELSE maxZeroRun)

\* ------------------------------------------------------------------ state
VARIABLES
    file,              \* audioState.file
    analysisResult,    \* the analysisResult state of App
    resultFile,        \* the File whose analysis produced analysisResult
    isAnalyzing,       \* the isAnalyzing state of App
    error,             \* the error state of App ("" for null)
    pc,                \* where the call of analyzeAudioSignal stands
    audioFile,         \* the argument of the call
    decodeCalls,       \* calls of decodeAudioData made by the call
    thrown,            \* what the rejected promise carries
    rawBuffer,         \* first channel of the decoded AudioBuffer
    profile,           \* spectral content of the decoded recording
    data,              \* normalizeBuffer(rawBuffer)
    i,                 \* offset of the next frame
    frameRolloffs, frameCentroids, frameRMS, frameFlatness,
    minGlobalRMS,
    noiseFloorDb, avgRolloff, stdRolloff, avgCentroid,
    maxZeroRun, hasDigitalSilence,
    score, explanations, primaryObs, rmsCV,
    result             \* the AnalysisResult the promise resolves to

vars ==
    <<file, analysisResult, resultFile, isAnalyzing, error,
      pc, audioFile, decodeCalls, thrown, rawBuffer, profile, data, i, frameRolloffs, frameCentroids, frameRMS,
      frameFlatness, minGlobalRMS, noiseFloorDb, avgRolloff, stdRolloff,
      avgCentroid, maxZeroRun, hasDigitalSilence, score, explanations,
      primaryObs, rmsCV, result>>

appVars == <<file, analysisResult, resultFile, isAnalyzing, error>>

callVars == <<audioFile, decodeCalls, thrown>>

frameVars == <<i, frameRolloffs, frameCentroids, frameRMS, frameFlatness, minGlobalRMS>>

statVars == <<noiseFloorDb, avgRolloff, stdRolloff, avgCentroid>>

silenceVars == <<maxZeroRun, hasDigitalSilence>>

scoreVars == <<score, explanations, primaryObs, rmsCV>>

\* No AnalysisResult (the promise is pending or rejected).
NoResult == [classification |-> "", confidence |-> 0, explanation |-> "",
             metrics |-> [noiseFloorDb |-> 0, frequencyCutoffHz |-> 0,
                          harmonicRegularityScore |-> 0, energyVariationScore |-> 0,
                          breathingArtifactsDetected |-> FALSE],
             keyObservation |-> ""]

\* Nothing thrown.
NoError == [isError |-> FALSE, message |-> ""]

\* What decodeAudioData rejects with: a DOMException, which is an Error.
DecodeErrors == {[isError |-> TRUE, message |-> "Unable to decode audio data"]}

Init ==
    /\ file = NoFile
    /\ analysisResult = NoResult
    /\ resultFile = NoFile
    /\ isAnalyzing = FALSE
    /\ error = ""
    /\ pc = "idle"
    /\ audioFile = NoFile
    /\ decodeCalls = 0
    /\ thrown = NoError
    /\ rawBuffer = << >>
    /\ profile = <<NarrowBand>>
    /\ data = << >>
    /\ i = 0
    /\ frameRolloffs = << >>
    /\ frameCentroids = << >>
    /\ frameRMS = << >>
    /\ frameFlatness = << >>
    /\ minGlobalRMS = RMS_INIT
    /\ noiseFloorDb = 0
    /\ avgRolloff = 0
    /\ stdRolloff = 0
    /\ avgCentroid = 0
    /\ maxZeroRun = 0
    /\ hasDigitalSilence = FALSE
    /\ score = 0
    /\ explanations = << >>
    /\ primaryObs = ""
    /\ rmsCV = 0
    /\ result = NoResult

\* analyzeAudioSignal(audioFile) is entered: a fresh activation, suspended at
\* the await of audioFile.arrayBuffer().
analyzeAudioSignal(f) ==
    /\ pc' = "reading"
    /\ audioFile' = f
    /\ decodeCalls' = 0
    /\ thrown' = NoError
    /\ rawBuffer' = << >>
    /\ profile' = <<NarrowBand>>
    /\ data' = << >>
    /\ i' = 0
    /\ frameRolloffs' = << >>
    /\ frameCentroids' = << >>
    /\ frameRMS' = << >>
    /\ frameFlatness' = << >>
    /\ minGlobalRMS' = RMS_INIT
    /\ noiseFloorDb' = 0
    /\ avgRolloff' = 0
    /\ stdRolloff' = 0
    /\ avgCentroid' = 0
    /\ maxZeroRun' = 0
    /\ hasDigitalSilence' = FALSE
    /\ score' = 0
    /\ explanations' = << >>
    /\ primaryObs' = ""
    /\ rmsCV' = 0
    /\ result' = NoResult

\* analyzeAudioSignal is called on some file.
Call ==
    /\ pc = "idle"
    /\ \E f \in Files : analyzeAudioSignal(f)
    /\ UNCHANGED appVars

\* The bytes have arrived: new AudioContext({ sampleRate: 44100 }) and the
\* call audioContext.decodeAudioData(arrayBuffer), suspended at its await.
InvokeDecoder ==
    /\ pc = "reading"
    /\ decodeCalls' = decodeCalls + 1
    /\ pc' = "decoding"
    /\ UNCHANGED <<appVars, audioFile, thrown, rawBuffer, profile, data, frameVars,
                   statVars, silenceVars, scoreVars, result>>

\* const rawBuffer = await audioContext.decodeAudioData(arrayBuffer);
Decode ==
    /\ pc = "decoding"
    /\ rawBuffer' = audioFile.signal
    /\ profile' = audioFile.profile
    /\ pc' = "normalize"
    /\ UNCHANGED <<appVars, callVars, data, frameVars, statVars, silenceVars, scoreVars, result>>

\* decodeAudioData rejects: the await throws and the promise is rejected.
DecodeFail ==
    /\ pc = "decoding"
    /\ \E err \in DecodeErrors : thrown' = err
    /\ pc' = "failed"
    /\ UNCHANGED <<appVars, audioFile, decodeCalls, rawBuffer, profile, data, frameVars, statVars, silenceVars,
                   scoreVars, result>>

\* const data = normalizeBuffer(rawBuffer);
Normalize ==
    /\ pc = "normalize"
    /\ data' = normalizeBuffer(rawBuffer)
    /\ i' = 0
    /\ frameRolloffs' = << >>
    /\ frameCentroids' = << >>
    /\ frameRMS' = << >>
    /\ frameFlatness' = << >>
    /\ minGlobalRMS' = RMS_INIT
    /\ pc' = "frames"
    /\ UNCHANGED <<appVars, callVars, rawBuffer, profile, statVars, silenceVars, scoreVars, result>>

\* The loop condition without "- FFT_SIZE".
FrameLoopCondWhole(a, off) == off < Length(a)

\* for (let i = 0; i < data.length - FFT_SIZE; i += HOP_SIZE)
FrameLoopCond(a, off) == off < Length(a) - FFT_SIZE

\* The minimum without the test rms > 0.00001.
NextMinRMSNoFloor(rms, minRMS) == IF rms < minRMS THEN rms ELSE minRMS

\* if (rms > 0.00001 && rms < minGlobalRMS) minGlobalRMS = rms;
NextMinRMS(rms, minRMS) == IF rms > RMS_FLOOR /\ rms < minRMS THEN rms ELSE minRMS

\* The gate with >= for >.
GatedAtLeast(rms) == rms >= RMS_GATE

\* if (rms > 0.01) { ... }
Gated(rms) == rms > RMS_GATE

\* One iteration of the frame loop.
FrameStep ==
    /\ pc = "frames"
    /\ FrameLoopCond(data, i)
    /\ LET rms == RmsOf(MeanSquare(data, i))
          sp == SpectrumOf(profile, Len(frameRMS))
       IN /\ frameRMS' = Append(frameRMS, rms)
          /\ minGlobalRMS' = NextMinRMS(rms, minGlobalRMS)
          /\ IF Gated(rms)
             THEN /\ frameRolloffs' = Append(frameRolloffs, RolloffHz(sp.rolloffBin))
                  /\ frameCentroids' = Append(frameCentroids, sp.centroid)
                  /\ frameFlatness' = Append(frameFlatness, sp.flatness)
             ELSE UNCHANGED <<frameRolloffs, frameCentroids, frameFlatness>>
    /\ i' = i + HOP_SIZE
    /\ UNCHANGED <<appVars, callVars, pc, rawBuffer, profile, data, statVars, silenceVars, scoreVars, result>>

\* The loop has ended: noise floor, rolloff mean and deviation, centroid mean.
Aggregate ==
    /\ pc = "frames"
    /\ ~FrameLoopCond(data, i)
    /\ noiseFloorDb' = NoiseFloorOf(minGlobalRMS)
    /\ avgRolloff' = MeanOf(frameRolloffs)
    /\ stdRolloff' = StdOf(frameRolloffs)
    /\ avgCentroid' = MeanOf(frameCentroids)
    /\ pc' = "silence"
    /\ UNCHANGED <<appVars, callVars, rawBuffer, profile, data, frameVars, silenceVars, scoreVars, result>>

\* const hasDigitalSilence = maxZeroRun > 1000;
SilenceOf(maxRun) == maxRun > SILENCE_RUN

\* 4. Digital Silence Detection
DetectSilence ==
    /\ pc = "silence"
    /\ maxZeroRun' = ZeroRunScan(data, 0, 0)
    /\ hasDigitalSilence' = SilenceOf(maxZeroRun')
    /\ score' = 0
    /\ explanations' = << >>
    /\ primaryObs' = ""
    /\ pc' = "factor1"
    /\ UNCHANGED <<appVars, callVars, rawBuffer, profile, data, frameVars, statVars, rmsCV, result>>

\* ---------------------------------------------------------------- scoring
E_CLEAN == "Signal is bandwidth-limited yet unnaturally clean."

E_HARDWARE == "Bandwidth limitation likely due to hardware, matched with natural noise floor."

E_FULLBAND == "Full spectral bandwidth detected."

E_RIGID == "Spectral rolloff point is mathematically rigid."

E_NATURAL == "Natural spectral variation observed over time."

E_ZEROFILL == "Contains segments of absolute digital silence (Zero-fill)."

E_COMPRESSED == "Low dynamic range consistent with normalized synthesis."

O_SYNTHETIC == "Bandwidth limited with synthetic silence."

O_FILTER == "Fixed-frequency low-pass filtering detected."

O_RIGIDITY == "Statistical signal rigidity."

O_VARIANCE == "Natural spectral variance."

AI_VOICE == "AI-Generated Voice"

HUMAN_VOICE == "Human Voice"

\* FACTOR 1 without the test of the noise floor and the silence flag.
BandwidthFactorNoNoise(avg, noise, silence) ==
    IF avg < ROLLOFF_LIMIT
    THEN [delta |-> 40, explanation |-> E_CLEAN, obs |-> O_SYNTHETIC]
    ELSE [delta |-> -10, explanation |-> E_FULLBAND, obs |-> ""]

\* FACTOR 1: the branch taken, as [delta, explanation, obs] (obs "" = not set).
BandwidthFactor(avg, noise, silence) ==
    IF avg < ROLLOFF_LIMIT
    THEN IF noise < -75 \/ silence
         THEN [delta |-> 40, explanation |-> E_CLEAN, obs |-> O_SYNTHETIC]
         ELSE [delta |-> -30, explanation |-> E_HARDWARE, obs |-> ""]
    ELSE [delta |-> -10, explanation |-> E_FULLBAND, obs |-> ""]

\* FACTOR 2 with "score += 20" for "score -= 20".
RigidityFactorSignSlip(std) ==
    IF std < RIGID_LIMIT
    THEN [delta |-> 35, explanation |-> E_RIGID, obs |-> O_FILTER]
    ELSE [delta |-> 20, explanation |-> E_NATURAL, obs |-> ""]

\* FACTOR 2: the branch taken.
RigidityFactor(std) ==
    IF std < RIGID_LIMIT
    THEN [delta |-> 35, explanation |-> E_RIGID, obs |-> O_FILTER]
    ELSE [delta |-> -20, explanation |-> E_NATURAL, obs |-> ""]

\* FACTOR 3 left out.
SilenceDeltaNone(silence) == 0

\* FACTOR 3: score += 25 when hasDigitalSilence.
SilenceDelta(silence) == IF silence THEN 25 ELSE 0

\* FACTOR 4: score += 15 when rmsCV < 0.4.
DynamicsDelta(cv) == IF Less(cv, CV_LIMIT) THEN 15 ELSE 0

\* The guarded assignment of FACTOR 2 without its guard.
OverwriteObs(current, offered) == IF offered # "" THEN offered ELSE current

\* if(!primaryObs) primaryObs = "...";  in the branch that offers one.
AssignObsIfUnset(current, offered) ==
    IF offered # "" /\ current = "" THEN offered ELSE current

Factor1 ==
    /\ pc = "factor1"
    /\ LET f == BandwidthFactor(avgRolloff, noiseFloorDb, hasDigitalSilence)
       IN /\ score' = score + f.delta
          /\ explanations' = Append(explanations, f.explanation)
          /\ primaryObs' = IF f.obs # "" THEN f.obs ELSE primaryObs
    /\ pc' = "factor2"
    /\ UNCHANGED <<appVars, callVars, rawBuffer, profile, data, frameVars, statVars, silenceVars, rmsCV, result>>

Factor2 ==
    /\ pc = "factor2"
    /\ LET f == RigidityFactor(stdRolloff)
       IN /\ score' = score + f.delta
          /\ explanations' = Append(explanations, f.explanation)
          /\ primaryObs' = AssignObsIfUnset(primaryObs, f.obs)
    /\ pc' = "factor3"
    /\ UNCHANGED <<appVars, callVars, rawBuffer, profile, data, frameVars, statVars, silenceVars, rmsCV, result>>

Factor3 ==
    /\ pc = "factor3"
    /\ score' = score + SilenceDelta(hasDigitalSilence)
    /\ explanations' = IF hasDigitalSilence THEN Append(explanations, E_ZEROFILL)
                       ELSE explanations
    /\ pc' = "factor4"
    /\ UNCHANGED <<appVars, callVars, rawBuffer, profile, data, frameVars, statVars, silenceVars, primaryObs,
                   rmsCV, result>>

Factor4 ==
    /\ pc = "factor4"
    /\ rmsCV' = RmsCVOf(frameRMS)
    /\ score' = score + DynamicsDelta(rmsCV')
    /\ explanations' = IF Less(rmsCV', CV_LIMIT) THEN Append(explanations, E_COMPRESSED)
                       ELSE explanations
    /\ pc' = "decide"
    /\ UNCHANGED <<appVars, callVars, rawBuffer, profile, data, frameVars, statVars, silenceVars, primaryObs, result>>

\* --------------------------------------------------------------- decision
\* isAI with >= for >.
IsAIAtLeast(sc) == sc >= AI_THRESHOLD

\* const isAI = score > 35;
IsAI(sc) == sc > AI_THRESHOLD

\* Confidence without Math.abs.
ConfidenceSigned(sc) == CONF_BASE + Min(CONF_SPAN, sc)

\* let confidence = 60 + Math.min(39, Math.abs(score));
Confidence(sc) == CONF_BASE + Min(CONF_SPAN, Abs(sc))

\* Math.round(num / den) for den > 0: the nearest integer, ties upwards.
RoundDiv(num, den) == (2 * num + den) \div (2 * den)

\* Math.round(Math.max(0, Math.min(100, (300 - stdRolloff) / 3)))
Regularity(std) == RoundDiv(Max(0, Min(300, 300 - std)), 3)

\* Math.round(Math.min(100, rmsCV * 100)); Math.min and Math.round keep NaN.
Variation(cv) == IF cv = NaN THEN NaN ELSE RoundDiv(Min(1000, cv), 10)

RECURSIVE Join(_, _)
\* Array.prototype.join
Join(xs, sep) ==
    IF xs = << >> THEN ""
    ELSE IF Len(xs) = 1 THEN xs[1]
    ELSE xs[1] \o sep \o Join(Tail(xs), sep)

\* explanations.slice(0, 3)
Slice3(xs) == SubSeq(xs, 1, Min(3, Len(xs)))

\* explanations.slice(0, 2)
Slice2(xs) == SubSeq(xs, 1, Min(2, Len(xs)))

\* primaryObs || (isAI ? "Statistical signal rigidity." : "Natural spectral variance.")
KeyObservation(obs, sc) ==
    IF obs # "" THEN obs ELSE IF IsAI(sc) THEN O_RIGIDITY ELSE O_VARIANCE

\* The return statement.
Decide ==
    /\ pc = "decide"
    /\ result' =
         [classification |-> IF IsAI(score) THEN AI_VOICE ELSE HUMAN_VOICE,
          confidence |-> Confidence(score),
          explanation |-> Join(Slice2(explanations), " "),
          metrics |-> [noiseFloorDb |-> noiseFloorDb,
                       frequencyCutoffHz |-> avgRolloff,
                       harmonicRegularityScore |-> Regularity(stdRolloff),
                       energyVariationScore |-> Variation(rmsCV),
                       breathingArtifactsDetected |->
                           noiseFloorDb > -70 /\ ~hasDigitalSilence],
          keyObservation |-> KeyObservation(primaryObs, score)]
    /\ pc' = "done"
    /\ UNCHANGED <<appVars, callVars, rawBuffer, profile, data, frameVars, statVars, silenceVars, scoreVars>>

\* --------------------------------------------------------------- App.tsx
\* The files the user picks from.  A wide-band recording with a moving
\* rolloff:
SpeechFile ==
    [signal |-> <<[v |-> -9500, n |-> 8192]>>, profile |-> <<FullBand, BrightBand>>]

\* A band-limited recording that begins with digital silence.
SynthFile ==
    [signal |-> <<[v |-> 0, n |-> 1500], [v |-> -9500, n |-> 8192]>>,
     profile |-> <<NarrowBand>>]

\* A recording shorter than one frame.
ShortFile == [signal |-> <<[v |-> 100, n |-> 1500]>>, profile |-> <<NarrowBand>>]

Uploads == {SpeechFile, SynthFile, ShortFile}

\* Between two awaits no event handler runs: a handler starts only while the
\* call is suspended or absent, never between its return and the
\* continuation of the caller (a microtask).
AtAwait == pc \in {"idle", "reading", "decoding"}

\* handleFileUpload with a file chosen (url and isPlaying of audioState are
\* not part of the state kept here).
handleFileUpload ==
    /\ AtAwait
    /\ \E f \in Uploads : file' = f
    /\ analysisResult' = NoResult
    /\ resultFile' = NoFile
    /\ error' = ""
    /\ UNCHANGED <<isAnalyzing, pc, callVars, rawBuffer, profile, data, frameVars,
                   statVars, silenceVars, scoreVars, result>>

\* handleAnalysis up to its await; the button is disabled while
\* !audioState.file || isAnalyzing.
handleAnalysis ==
    /\ pc = "idle"
    /\ ~isAnalyzing
    /\ file # NoFile
    /\ isAnalyzing' = TRUE
    /\ error' = ""
    /\ analyzeAudioSignal(file)
    /\ UNCHANGED <<file, analysisResult, resultFile>>

\* The catch clause with every message replaced by the fallback text.
ErrorTextFallback(err) == "Analysis failed. Please try again."

\* err instanceof Error ? err.message : "Analysis failed. Please try again."
ErrorTextOf(err) ==
    IF err.isError THEN err.message ELSE "Analysis failed. Please try again."

\* The await resolved: setAnalysisResult(result), then the finally clause.
AnalysisResolved ==
    /\ pc = "done"
    /\ analysisResult' = result
    /\ resultFile' = audioFile
    /\ isAnalyzing' = FALSE
    /\ pc' = "idle"
    /\ UNCHANGED <<file, error, callVars, rawBuffer, profile, data, frameVars, statVars,
                   silenceVars, scoreVars, result>>

\* The await threw: the catch clause, then the finally clause.
AnalysisRejected ==
    /\ pc = "failed"
    /\ error' = ErrorTextOf(thrown)
    /\ isAnalyzing' = FALSE
    /\ pc' = "idle"
    /\ UNCHANGED <<file, analysisResult, resultFile, callVars, rawBuffer, profile, data,
                   frameVars, statVars, silenceVars, scoreVars, result>>

\* ------------------------------------------------------- specifications
\* analyzeAudioSignal called on every file, one call after the other.
Next ==
    \/ Call
    \/ InvokeDecoder
    \/ Decode
    \/ DecodeFail
    \/ Normalize
    \/ FrameStep
    \/ Aggregate
    \/ DetectSilence
    \/ Factor1
    \/ Factor2
    \/ Factor3
    \/ Factor4
    \/ Decide

Spec == Init /\ [][Next]_vars

\* The App component: uploads and analysis runs on the user's files.
AppNext ==
    \/ handleFileUpload
    \/ handleAnalysis
    \/ InvokeDecoder
    \/ Decode
    \/ DecodeFail
    \/ Normalize
    \/ FrameStep
    \/ Aggregate
    \/ DetectSilence
    \/ Factor1
    \/ Factor2
    \/ Factor3
    \/ Factor4
    \/ Decide
    \/ AnalysisResolved
    \/ AnalysisRejected

AppSpec == Init /\ [][AppNext]_vars

\* ================================================================= claims
\* Positions at which the synchronous part of the analysis has normalised.
Normalised == pc \in {"frames", "silence", "factor1", "factor2", "factor3",
                      "factor4", "decide", "done"}

\* C1: the confidence of every AnalysisResult is an integer from 60 to 99,
\* namely 60 + min(39, |score|) for the final score, also for recordings
\* with no frame, silent recordings and a NaN coefficient of variation.
C1_ConfidenceBounds ==
    pc = "done" =>
        /\ result.confidence \in 60..99
        /\ result.confidence = IF score >= 39 \/ score <= -39 THEN 99
                               ELSE IF score < 0 THEN 60 - score ELSE 60 + score

\* A recording with no frame and a NaN coefficient of variation got a
\* confidence strictly inside the range.
C1_Witness ==
    /\ pc = "done"
    /\ frameRMS = << >>
    /\ rmsCV = NaN
    /\ result.confidence = 65

\* C2: the score starts at 0 and is the sum of the bandwidth factor (+40,
\* -30 or -10), the rigidity factor (+35 or -20), +25 for digital silence
\* and +15 for a coefficient of variation below 0.4; the classification is
\* AI exactly when the score exceeds 35.
C2_ScoreTable ==
    /\ pc = "factor1" => score = 0
    /\ pc = "done" =>
        /\ score =
             (IF avgRolloff < 17000
              THEN IF noiseFloorDb < -75 \/ hasDigitalSilence THEN 40 ELSE -30
              ELSE -10)
             + (IF stdRolloff < 200 THEN 35 ELSE -20)
             + (IF hasDigitalSilence THEN 25 ELSE 0)
             + (IF rmsCV # NaN /\ rmsCV < 400 THEN 15 ELSE 0)
        /\ (result.classification = AI_VOICE <=> score > 35)
        /\ result.classification \in {AI_VOICE, HUMAN_VOICE}

\* A recording scored exactly 35 and was classified Human.
C2_Witness ==
    /\ pc = "done"
    /\ score = 35
    /\ result.classification = HUMAN_VOICE

\* Number of samples in runs p..q of a.
RunSpan(a, p, q) == StartOf(a, q) + a[q].n - StartOf(a, p)

\* Length of the longest stretch of consecutive samples equal to 0.
LongestZeroRun(a) ==
    LET stretches == {<<p, q>> \in (1..Len(a)) \X (1..Len(a)) :
                         p <= q /\ \A k \in p..q : a[k].v = 0}
    IN IF stretches = {} THEN 0
       ELSE CHOOSE m \in {RunSpan(a, st[1], st[2]) : st \in stretches} :
                \A st \in stretches : RunSpan(a, st[1], st[2]) <= m

\* The silence scan has run.
Scanned == pc \in {"factor1", "factor2", "factor3", "factor4", "decide", "done"}

\* C3: hasDigitalSilence holds exactly when the longest run of exact zeros
\* of the normalised signal, wherever it lies (start, middle, very end, or
\* the whole signal), is longer than 1000 samples.
C3_SilenceIffLongestRun ==
    Scanned => (hasDigitalSilence <=> LongestZeroRun(data) > 1000)

\* C4: a band-limited recording (avgRolloff < 17000 Hz) that ends in an
\* appended run of more than 1000 exact zeros gets hasDigitalSilence,
\* the classification AI and a confidence of at least 85.
C4_AppendedSilenceIsAI ==
    ( /\ pc = "done"
      /\ Len(data) = 2
      /\ data[1].v # 0
      /\ data[2].v = 0
      /\ data[2].n > 1000
      /\ frameRolloffs # << >>
      /\ avgRolloff < 17000 )
    => /\ hasDigitalSilence
       /\ result.classification = AI_VOICE
       /\ result.confidence >= 85

\* Number of offsets 0, H, 2H, ... at which a whole frame of L samples fits
\* in a signal of n samples (offset + L <= n).
FittingFrames(n) == IF n < FFT_SIZE THEN 0 ELSE (n - FFT_SIZE) \div HOP_SIZE + 1

\* The frame loop has ended.
Framed == pc \in {"silence", "factor1", "factor2", "factor3", "factor4", "decide", "done"}

\* C5: the frames processed are exactly those at offsets 0, H, 2H, ... with
\* offset + L <= N, in increasing order: a frame that ends exactly at the end
\* of the signal is processed (N = L gives one frame, N = L + H two) and
\* only a partial tail is dropped.
C5_FramesThatFit ==
    /\ pc = "frames" => i = Len(frameRMS) * HOP_SIZE
    /\ Framed => Len(frameRMS) = FittingFrames(Length(data))

\* C6: a decoded signal shorter than 2048 samples (also an empty one) is
\* analysed to the end: no frame, avgRolloff, stdRolloff and avgCentroid 0,
\* the noise floor of the fallback minimum RMS 1.0, and the classification
\* AI exactly when hasDigitalSilence holds.
C6_ShortSignal ==
    (Normalised /\ Length(data) < 2048) =>
        /\ frameRMS = << >>
        /\ frameRolloffs = << >>
        /\ minGlobalRMS = RMS_INIT
        /\ Framed => /\ avgRolloff = 0
                     /\ stdRolloff = 0
                     /\ avgCentroid = 0
                     /\ noiseFloorDb = 0
        /\ pc = "done" =>
              /\ result # NoResult
              /\ hasDigitalSilence => result.classification = AI_VOICE
              /\ ~hasDigitalSilence => result.classification = HUMAN_VOICE

\* A signal shorter than a frame with a run of more than 1000 zeros inside
\* was classified AI.
C6_Witness ==
    /\ pc = "done"
    /\ Length(data) < 2048
    /\ Length(data) > 0
    /\ hasDigitalSilence
    /\ result.classification = AI_VOICE

\* C7: with avgRolloff < 17000 Hz, no digital silence and a noise floor not
\* below -75 dB the classification is Human, whatever stdRolloff and the
\* coefficient of variation are.
C7_CheapMicIsHuman ==
    (pc = "done" /\ avgRolloff < 17000 /\ ~hasDigitalSilence /\ noiseFloorDb >= -75)
    => result.classification = HUMAN_VOICE

\* A band-limited, noisy recording with a rigid rolloff and flat dynamics
\* (the highest score of the branch) was classified Human.
C7_Witness ==
    /\ pc = "done"
    /\ frameRolloffs # << >>
    /\ avgRolloff < 17000
    /\ ~hasDigitalSilence
    /\ noiseFloorDb >= -75
    /\ stdRolloff < 200
    /\ rmsCV # NaN
    /\ rmsCV < 400
    /\ LongestZeroRun(data) = 0
    /\ score = 20
    /\ result.classification = HUMAN_VOICE

\* C8: when the bandwidth factor is negative and stdRolloff >= 200 the
\* classification is Human and keyObservation is "Natural spectral
\* variance.", whatever the silence and dynamics factors add; and
\* "Statistical signal rigidity." is never the keyObservation.
C8_BothNegativeIsHuman ==
    pc = "done" =>
        /\ ( /\ ~(avgRolloff < 17000 /\ (noiseFloorDb < -75 \/ hasDigitalSilence))
             /\ stdRolloff >= 200 )
           => /\ result.classification = HUMAN_VOICE
              /\ result.keyObservation = "Natural spectral variance."
        /\ result.keyObservation # "Statistical signal rigidity."

\* A full-band recording with a moving rolloff, digital silence and flat
\* dynamics (the highest score with both factors negative) came out Human.
C8_Witness ==
    /\ pc = "done"
    /\ avgRolloff >= 17000
    /\ stdRolloff >= 200
    /\ hasDigitalSilence
    /\ rmsCV # NaN
    /\ rmsCV < 400
    /\ score = 10
    /\ result.keyObservation = "Natural spectral variance."

\* Largest |sample| of a (0 for the empty array).
AbsPeak(a) ==
    IF a = << >> THEN 0
    ELSE CHOOSE m \in {Abs(a[j].v) : j \in 1..Len(a)} :
             \A j \in 1..Len(a) : Abs(a[j].v) <= m

\* The float32 nearest to x * num / den, computed sign and magnitude apart.
Float32Product(x, num, den) ==
    IF x < 0 THEN -RoundHalfEven((-x) * num, den) ELSE RoundHalfEven(x * num, den)

\* The parts of C9 that hold as stated: same length, one common scalar
\* (0.95 / maxPeak, or 1 for silence), peak 0.95, silence unchanged.
NormalizerScales ==
    /\ Len(data) = Len(rawBuffer)
    /\ \A j \in 1..Len(data) : data[j].n = rawBuffer[j].n
    /\ Length(data) = Length(rawBuffer)
    /\ AbsPeak(rawBuffer) > 0 =>
          /\ AbsPeak(data) = 9500
          /\ \A j \in 1..Len(data) :
                data[j].v = Float32Product(rawBuffer[j].v, 9500, AbsPeak(rawBuffer))
    /\ AbsPeak(rawBuffer) = 0 => data = rawBuffer

C10_ExplanationIsFirstTwo ==
    pc = "done" =>
        /\ Len(explanations) \in 2..4
        /\ explanations[1] \in {E_CLEAN, E_HARDWARE, E_FULLBAND}
        /\ explanations[2] \in {E_RIGID, E_NATURAL}
        /\ \A k \in 3..Len(explanations) : explanations[k] \in {E_ZEROFILL, E_COMPRESSED}
        /\ result.explanation = explanations[1] \o " " \o explanations[2]
        /\ explanations[1] =
             (IF avgRolloff < 17000
              THEN IF noiseFloorDb < -75 \/ hasDigitalSilence THEN E_CLEAN ELSE E_HARDWARE
              ELSE E_FULLBAND)
        /\ explanations[2] = (IF stdRolloff < 200 THEN E_RIGID ELSE E_NATURAL)

\* All four factors collected a statement and two were surfaced.
C10_Witness ==
    /\ pc = "done"
    /\ Len(explanations) = 4
    /\ explanations[3] = E_ZEROFILL
    /\ explanations[4] = E_COMPRESSED
    /\ result.explanation = E_CLEAN \o " " \o E_NATURAL

\* C11: the metrics of every AnalysisResult hold a harmonicRegularityScore
\* and an energyVariationScore from 0 to 100: the rounded
\* clamp(0, 100, (300 - stdRolloff) / 3) and the rounded
\* min(100, rmsCV * 100), also for a recording with no frame or only silent
\* frames, where the mean frame RMS is 0.
C11_MetricsInRange ==
    pc = "done" =>
        /\ result.metrics.harmonicRegularityScore \in 0..100
        /\ result.metrics.harmonicRegularityScore =
             (IF stdRolloff >= 300 THEN 0 ELSE (2 * (300 - stdRolloff) + 3) \div 6)
        /\ result.metrics.energyVariationScore # NaN
        /\ result.metrics.energyVariationScore \in 0..100

\* C13: the factors run in the order bandwidth, rigidity, digital silence,
\* dynamics; primaryObs is unset when the bandwidth factor runs, which may
\* set it; the rigidity factor sets it only if it is still unset; the
\* silence and dynamics factors leave it alone; keyObservation is
\* primaryObs, or the default of the classification when it is unset.
C13_FactorOrder ==
    [][ /\ pc = "factor1" =>
             /\ primaryObs = ""
             /\ pc' = "factor2"
             /\ primaryObs' \in {"", "Bandwidth limited with synthetic silence."}
        /\ pc = "factor2" =>
             /\ pc' = "factor3"
             /\ primaryObs # "" => primaryObs' = primaryObs
             /\ primaryObs = "" =>
                   primaryObs' = (IF stdRolloff < 200
                                  THEN "Fixed-frequency low-pass filtering detected."
                                  ELSE "")
        /\ pc = "factor3" => (pc' = "factor4" /\ primaryObs' = primaryObs)
        /\ pc = "factor4" => (pc' = "decide" /\ primaryObs' = primaryObs)
        /\ pc = "decide" =>
             result'.keyObservation =
                 (IF primaryObs # "" THEN primaryObs
                  ELSE IF result'.classification = AI_VOICE
                       THEN "Statistical signal rigidity."
                       ELSE "Natural spectral variance.")
      ]_vars

\* The bandwidth factor set the observation and the rigidity factor, taking
\* its rigid branch, left it as it was.
C13_Witness ==
    /\ pc = "done"
    /\ stdRolloff < 200
    /\ frameRolloffs # << >>
    /\ primaryObs = "Bandwidth limited with synthetic silence."
    /\ result.keyObservation = "Bandwidth limited with synthetic silence."

\* The frame loop has begun.
InLoop == pc \in {"frames", "silence", "factor1", "factor2", "factor3", "factor4",
                  "decide", "done"}

RECURSIVE GatedFrameNumbers(_, _)
\* The numbers (from 0) of the frames k, k + 1, ... whose RMS exceeds 0.01,
\* in increasing order.
GatedFrameNumbers(rms, k) ==
    IF k > Len(rms) THEN << >>
    ELSE (IF rms[k] > 10000 THEN <<k - 1>> ELSE << >>) \o GatedFrameNumbers(rms, k + 1)

\* C14: after every iteration of the frame loop the RMS sequence has one
\* entry per frame processed, and the rolloff, centroid and flatness
\* sequences have one entry, in frame order, per processed frame whose
\* RMS exceeds 0.01; a frame with RMS at most 0.01 (exactly 0.01 included)
\* adds an RMS entry only.  (pc = "frames" before the first and after every
\* iteration.)
C14_VoicingGate ==
    pc = "frames" =>
        LET g == GatedFrameNumbers(frameRMS, 1)
        IN /\ Len(frameRMS) * 1024 = i
           /\ Len(frameRMS) > 0 =>
                 frameRMS[Len(frameRMS)] = RmsOf(MeanSquare(data, i - 1024))
           /\ Len(frameRolloffs) = Len(g)
           /\ Len(frameCentroids) = Len(g)
           /\ Len(frameFlatness) = Len(g)
           /\ \A j \in 1..Len(g) :
                 /\ frameRolloffs[j] = (SpectrumOf(profile, g[j]).rolloffBin * 44100) \div 2048
                 /\ frameCentroids[j] = SpectrumOf(profile, g[j]).centroid
                 /\ frameFlatness[j] = SpectrumOf(profile, g[j]).flatness

\* A frame with an RMS of exactly 0.01 added an RMS entry only, after a frame
\* that passed the gate.
C14_Witness ==
    /\ InLoop
    /\ Len(frameRMS) >= 2
    /\ frameRMS[1] > 10000
    /\ frameRMS[2] = 10000
    /\ Len(frameRolloffs) = Len(frameRMS) - 1

\* The RMS values of the frames with rms > 0.00001.
QualifyingRMS == {frameRMS[k] : k \in {m \in 1..Len(frameRMS) : frameRMS[m] > 10}}

\* C15: when the frame loop has ended (and after each of its iterations, for
\* the frames so far) minGlobalRMS is the least RMS of the frames with
\* rms > 0.00001, and the fallback 1.0 exactly when no frame qualifies; every
\* frame of the normalised signal has rms < 1.0, so the noise floor is the
\* 0 dB sentinel only when no frame qualifies.
C15_MinGlobalRMS ==
    /\ pc \in {"frames", "silence"} =>
          /\ \A k \in 1..Len(frameRMS) : frameRMS[k] < 1000000
          /\ QualifyingRMS # {} =>
                /\ minGlobalRMS \in QualifyingRMS
                /\ \A x \in QualifyingRMS : minGlobalRMS <= x
          /\ (minGlobalRMS = 1000000 <=> QualifyingRMS = {})
    /\ pc = "silence" => (noiseFloorDb = 0 <=> QualifyingRMS = {})

\* Silent frames were left out and the minimum was taken over the others.
C15_Witness ==
    /\ Framed
    /\ \E k \in 1..Len(frameRMS) : frameRMS[k] = 0
    /\ \E k \in 1..Len(frameRMS) : frameRMS[k] > minGlobalRMS
    /\ minGlobalRMS > 10
    /\ minGlobalRMS < 1000000
    /\ noiseFloorDb < 0

\* C16: with digital silence and avgRolloff < 17000 Hz the score is at least
\* 45, the classification AI and the confidence 99, whatever the noise floor,
\* stdRolloff and the coefficient of variation are; and with digital silence
\* breathingArtifactsDetected is false.
C16_SilenceBandLimitedIsAI ==
    pc = "done" =>
        /\ (hasDigitalSilence /\ avgRolloff < 17000) =>
              /\ score >= 45
              /\ result.classification = AI_VOICE
              /\ result.confidence = 99
        /\ hasDigitalSilence => ~result.metrics.breathingArtifactsDetected

\* A band-limited recording with digital silence, a moving rolloff, wide
\* dynamics and an audible noise floor scored exactly 45.
C16_Witness ==
    /\ pc = "done"
    /\ hasDigitalSilence
    /\ frameRolloffs # << >>
    /\ avgRolloff < 17000
    /\ stdRolloff >= 200
    /\ noiseFloorDb > -70
    /\ score = 45
    /\ result.confidence = 99
    /\ ~result.metrics.breathingArtifactsDetected

\* The decoder has been called by the present call of analyzeAudioSignal.
DecoderCalled == pc \in {"decoding", "failed", "normalize", "frames", "silence", "factor1",
                         "factor2", "factor3", "factor4", "decide", "done"}

C17_ResultOfCurrentFile ==
    analysisResult # NoResult => resultFile = file

====
